---- MODULE Spec2Model ----
(***************************************************************************)
(* Model of the file-generation framework (generators/file.py,             *)
(* generators/base.py + generators/configs.py, core/generators/file.py),   *)
(* of the generate command handler (commands/generate.py) and of the copy  *)
(* subsystem (core/io/fscopy.py) of the christianwhocodes package.         *)
(*                                                                         *)
(* A text is a TLA+ string; a line typed at a prompt is a sequence of      *)
(* one-character strings so that str.strip and str.lower are computed.     *)
(* A path is the sequence of its components; the filesystem maps paths to  *)
(* nodes.                                                                  *)
(***************************************************************************)
EXTENDS Integers, Sequences, FiniteSets, TLC

VARIABLES
    system,     \* value of platform.system()
    appdata,    \* TRUE iff the environment variable APPDATA is set
    dirStSize,  \* st_size the filesystem reports for a directory
    fs,         \* the filesystem: path -> node
    gen,        \* the generator in use: [impl, kind]
    cr,         \* frame of the running (or last finished) create call
    prev,       \* summary of the create call that finished before cr
    ncalls,     \* number of create calls made so far
    cp,         \* frame of the running (or last finished) copy_path call
    pf          \* arguments and results of the calls of a pure function

vars == <<system, appdata, dirStSize, fs, gen, cr, prev, ncalls, cp, pf>>

(***************************************************************************)
(* Bounds of the model.                                                    *)
(***************************************************************************)
MaxCalls == 2

\* the longest url, and the number of times a url is normalized over
MaxUrlLen == 6
MaxApply == 2

\* the arguments of the number functions are the integers -MaxN..MaxN
MaxN == 12

\* the largest number of choices, and the longest value of a choice
MaxChoices == 3
MaxValueLen == 3

(***************************************************************************)
(* str.strip() and str.lower() on a typed line.                            *)
(***************************************************************************)
Whitespace == {" ", "\t"}

LowerChar(c) ==
    CASE c = "Y" -> "y"
      [] c = "E" -> "e"
      [] c = "S" -> "s"
      [] c = "N" -> "n"
      [] c = "O" -> "o"
      [] c = "M" -> "m"
      [] OTHER -> c

lower(s) == [i \in 1..Len(s) |-> LowerChar(s[i])]

RECURSIVE lstrip(_)
lstrip(s) == IF s # <<>> /\ Head(s) \in Whitespace THEN lstrip(Tail(s)) ELSE s

RECURSIVE rstrip(_)
rstrip(s) ==
    IF s # <<>> /\ s[Len(s)] \in Whitespace
    THEN rstrip(SubSeq(s, 1, Len(s) - 1))
    ELSE s

strip(s) == rstrip(lstrip(s))

\* The lines a user may type at a prompt (without the line terminator).
InputLines ==
    { <<"y">>, <<" ", "Y", "e", "s", " ">>, <<"N">>, <<"n", "o", "\t">>,
      <<>>, <<" ">>, <<"m">>, <<"y", "e", "s", "s">> }

(***************************************************************************)
(* Filesystem nodes.                                                       *)
(***************************************************************************)
S_IRUSR == {"S_IRUSR"}
S_IWUSR == {"S_IWUSR"}
DefaultFileMode == {"S_IRUSR", "S_IWUSR", "S_IRGRP", "S_IROTH"}
DefaultDirMode == DefaultFileMode \cup {"S_IXUSR", "S_IXGRP", "S_IXOTH"}

Absent == [type |-> "absent", content |-> "", mode |-> {}]
File(c, m) == [type |-> "file", content |-> c, mode |-> m]
Dir == [type |-> "dir", content |-> "", mode |-> DefaultDirMode]
\* a node that exists but is neither a regular file nor a directory (a FIFO)
Special == [type |-> "special", content |-> "", mode |-> DefaultFileMode]

UserText == "localhost:5432:*:me:secret\n"

exists(p) == fs[p].type # "absent"
is_file_any(p) == fs[p].type # "absent"
is_file(p) == fs[p].type = "file"
is_dir(p) == fs[p].type = "dir"
st_size(p) == IF is_file(p) THEN Len(fs[p].content) ELSE dirStSize

Parent(p) == SubSeq(p, 1, Len(p) - 1)
Ancestors(p) == { SubSeq(p, 1, n) : n \in 1..(Len(p) - 1) }

(***************************************************************************)
(* Platform detection and the generators' paths and contents.              *)
(***************************************************************************)
SystemNames == {"Windows", "Linux", "Darwin", "FreeBSD"}

SystemLower ==
    [n \in SystemNames |->
        CASE n = "Windows" -> "windows"
          [] n = "Linux" -> "linux"
          [] n = "Darwin" -> "darwin"
          [] OTHER -> "freebsd"]

PLATFORM_MAP ==
    [n \in {"darwin", "linux", "windows"} |->
        CASE n = "darwin" -> "macos" [] n = "linux" -> "linux" [] OTHER -> "windows"]

\* Platform()._detect_os(): the normalized name, or "OSError" when it raises
os_name ==
    IF SystemLower[system] \in DOMAIN PLATFORM_MAP
    THEN PLATFORM_MAP[SystemLower[system]]
    ELSE "OSError"

Home == <<"~">>
AppDataDir == <<"%APPDATA%">>

Kinds == {"pg_service", "pgpass", "ssh_config"}
Impls == {"file", "base", "core"}

PgConfigFilesEnum ==
    [PG_SERVICE |-> ".pg_service.conf",
     PGPASS |-> IF system = "Windows" THEN "pgpass.conf" ELSE ".pgpass"]

\* a resolved path, or the exception raised while computing it
Resolved(p) == [exc |-> "none", path |-> p]
Raises(e) == [exc |-> e, path |-> <<>>]

\* file_path of the class-based generators (generators/file.py, configs.py)
file_path(kind) ==
    CASE kind = "pg_service" ->
            IF system = "Windows"
            THEN IF appdata
                 THEN Resolved(AppDataDir \o <<"postgresql", PgConfigFilesEnum.PG_SERVICE>>)
                 ELSE Raises("KeyError")
            ELSE Resolved(Home \o <<PgConfigFilesEnum.PG_SERVICE>>)
      [] kind = "pgpass" ->
            IF system = "Windows"
            THEN IF appdata
                 THEN Resolved(AppDataDir \o <<"postgresql", PgConfigFilesEnum.PGPASS>>)
                 ELSE Raises("KeyError")
            ELSE Resolved(Home \o <<PgConfigFilesEnum.PGPASS>>)
      [] OTHER -> Resolved(Home \o <<".ssh", "config">>)

\* data of the class-based generators
data(kind) ==
    CASE kind = "pg_service" ->
            "# Read more about .pg_service.conf file: https://www.postgresql.org/docs/current/libpq-pgservice.html \n\n"
            \o "# comment\n" \o "[mydb]\n" \o "host=localhost\n" \o "port=5432\n"
            \o "dbname=postgres\n" \o "user=postgres\n"
      [] kind = "pgpass" ->
            "# Read more about " \o PgConfigFilesEnum.PGPASS
            \o " file: https://www.postgresql.org/docs/current/libpq-pgpass.html \n\n"
            \o "# This file should contain lines of the following format:\n"
            \o "# hostname:port:database:username:password\n"
      [] OTHER ->
            "# Read more about SSH config files: https://linux.die.net/man/5/ssh_config\n"
            \o "# ssh -i 'path/to/key' user@domain_or_ip\n\n"
            \o "Host my_host_alias\n" \o "    IdentityFile path/to/key\n"
            \o "    User my_user\n" \o "    HostName my_domain_or_ip_address\n"
            \o "#    LocalForward 8080 localhost:8080\n"

\* _pg_base_path of core/generators/file.py
pg_base_path_no_appdata ==
    IF os_name = "OSError" THEN Raises("OSError")
    ELSE IF os_name = "windows"
         THEN Resolved(Home \o <<"postgresql">>)
         ELSE Resolved(Home)

pg_base_path ==
    IF os_name = "OSError" THEN Raises("OSError")
    ELSE IF os_name = "windows"
         THEN Resolved((IF appdata THEN AppDataDir ELSE Home) \o <<"postgresql">>)
         ELSE Resolved(Home)

NoMode == {"None"}

\* a FileSpec, or the exception raised while building it
FileSpec(p, c, m) == [exc |-> "none", path |-> p, content |-> c, chmod_mode |-> m]
NoSpec(e) == [exc |-> e, path |-> <<>>, content |-> "", chmod_mode |-> NoMode]

get_pg_service_spec ==
    IF pg_base_path.exc # "none" THEN NoSpec(pg_base_path.exc)
    ELSE FileSpec(pg_base_path.path \o <<".pg_service.conf">>,
                  "# Read more: https://www.postgresql.org/docs/current/libpq-pgservice.html\n\n"
                  \o "[mydb]\n" \o "host=localhost\n" \o "port=5432\n"
                  \o "dbname=postgres\n" \o "user=postgres\n",
                  NoMode)

get_pgpass_spec ==
    IF os_name = "OSError" THEN NoSpec("OSError")
    ELSE LET is_win == os_name = "windows"
             filename == IF is_win THEN "pgpass.conf" ELSE ".pgpass"
             mode == IF is_win THEN NoMode ELSE S_IRUSR \cup S_IWUSR
         IN  FileSpec(pg_base_path.path \o <<filename>>,
                      "# Read more: https://www.postgresql.org/docs/current/libpq-pgpass.html\n\n"
                      \o "# hostname:port:database:username:password\n",
                      mode)

get_ssh_config_spec ==
    FileSpec(Home \o <<".ssh", "config">>,
             "# Read more: https://linux.die.net/man/5/ssh_config\n\n"
             \o "Host my_host_alias\n" \o "    IdentityFile ~/.ssh/id_rsa\n"
             \o "    User my_user\n" \o "    HostName my_domain_or_ip_address\n",
             NoMode)

\* the FileSpec of a kind (core implementation)
specOf(kind) ==
    CASE kind = "pg_service" -> get_pg_service_spec
      [] kind = "pgpass" -> get_pgpass_spec
      [] OTHER -> get_ssh_config_spec

\* target path and content of the generator g, whichever its implementation
TargetOf(g) ==
    IF g.impl = "core"
    THEN [exc |-> specOf(g.kind).exc, path |-> specOf(g.kind).path]
    ELSE file_path(g.kind)

ContentOf(g) == IF g.impl = "core" THEN specOf(g.kind).content ELSE data(g.kind)

(***************************************************************************)
(* The filesystem the generators work on.                                  *)
(***************************************************************************)
GenPaths ==
    { Home, AppDataDir,
      Home \o <<".pg_service.conf">>, Home \o <<".pgpass">>,
      Home \o <<".ssh">>, Home \o <<".ssh", "config">>,
      AppDataDir \o <<"postgresql">>,
      AppDataDir \o <<"postgresql", ".pg_service.conf">>,
      AppDataDir \o <<"postgresql", "pgpass.conf">>,
      Home \o <<"postgresql">>,
      Home \o <<"postgresql", ".pg_service.conf">>,
      Home \o <<"postgresql", "pgpass.conf">> }

\* the paths of the copy subsystem: a source, and destinations with an
\* existing and with a missing parent directory
Cwd == <<"cwd">>
SrcPath == Cwd \o <<"src">>
DstPath == Cwd \o <<"dst">>
DeepDstPath == Cwd \o <<"out", "dst">>
EntryNames == {"a", "b"}
CopyPaths ==
    { Cwd, SrcPath, DstPath, Cwd \o <<"out">>, DeepDstPath, DstPath \o <<"src">> }
    \cup { SrcPath \o <<e>> : e \in EntryNames }
    \cup { DstPath \o <<e>> : e \in EntryNames }
    \cup { DeepDstPath \o <<e>> : e \in EntryNames }

\* the root of the filesystem, parent of the home, application-data and
\* working directories
RootPath == <<>>

AllPaths == {RootPath} \cup GenPaths \cup CopyPaths

Roots == {RootPath, Home, AppDataDir, Cwd}

EmptyFs == [p \in AllPaths |-> IF p \in Roots THEN Dir ELSE Absent]

\* f with every path of ps that is absent turned into a directory
WithDirs(f, ps) ==
    [p \in DOMAIN f |-> IF p \in ps /\ f[p].type = "absent" THEN Dir ELSE f[p]]

\* st_size of a directory: 0 on some filesystems, a block elsewhere
DirSizes == {0, 4096}

TargetStates == {"noparent", "parentfile", "absent", "empty", "user", "dir"}

\* the filesystem in which the target t is in the state ts
InitFs(t, ts) ==
    LET withParents == WithDirs(EmptyFs, Ancestors(t)) IN
    CASE ts = "noparent" -> EmptyFs
      [] ts = "parentfile" ->
            IF Parent(t) \in Roots THEN withParents
            ELSE [WithDirs(EmptyFs, Ancestors(Parent(t)))
                    EXCEPT ![Parent(t)] = File(UserText, DefaultFileMode)]
      [] ts = "absent" -> withParents
      [] ts = "empty" -> [withParents EXCEPT ![t] = File("", DefaultFileMode)]
      [] ts = "user" -> [withParents EXCEPT ![t] = File(UserText, DefaultFileMode)]
      [] OTHER -> [withParents EXCEPT ![t] = Dir]

(***************************************************************************)
(* Frames of the create calls.                                             *)
(***************************************************************************)
IdleFrame ==
    [pc |-> "idle", force |-> FALSE, target |-> <<>>, attempts |-> 0,
     reads |-> <<>>, nreads |-> 0, out |-> <<>>, result |-> "none",
     exc |-> "none", wrote |-> FALSE, chmods |-> 0, pre |-> Absent, post |-> Absent,
     exit |-> "none", command |-> "none", status |-> -1, report |-> ""]

IdleCopy ==
    [pc |-> "idle", via |-> "none", source |-> <<>>, destination |-> <<>>,
     strategy |-> "none", reads |-> <<>>, out |-> <<>>, ops |-> <<>>,
     result |-> "none", exc |-> "none", pre |-> EmptyFs]

\* no pure function is being called
NoPure == [kind |-> "none"]

\* ExitCode of core/enums.py
ExitCode == [SUCCESS |-> 0, ERROR |-> 1]

\* Python truth value of a returned object
Truthy(r) == r = "True"

\* handle_file_generation: the exit code for what create returned
handle_file_generation(success) ==
    IF Truthy(success) THEN "SUCCESS" ELSE "ERROR"

\* what is remembered of a finished call once the next call has started
Summary(f) == [f EXCEPT !.reads = <<>>, !.out = <<>>]

main_zero_on_error(f) ==
    IF f.pc = "raised"
    THEN [status |-> ExitCode.SUCCESS, report |-> "Error: " \o f.exc]
    ELSE [status |-> ExitCode[f.exit], report |-> ""]

\* main: the exit status of the process and what main prints, for the
\* handler that ended as f did
main(f) ==
    IF f.pc = "raised"
    THEN IF f.exc = "KeyboardInterrupt"
         THEN [status |-> ExitCode.ERROR, report |-> "Operation cancelled by user."]
         ELSE [status |-> ExitCode.ERROR, report |-> "Error: " \o f.exc]
    ELSE [status |-> ExitCode[f.exit], report |-> ""]

\* the create call f ends, leaving the filesystem nfs; a call made by a
\* command handler ends the handler, and main exits
Finish(f, nfs) ==
    /\ cr' = [f EXCEPT !.post = IF f.target = <<>> THEN Absent ELSE nfs[f.target],
                       !.status = IF f.command = "none" THEN -1 ELSE main(f).status,
                       !.report = IF f.command = "none" THEN "" ELSE main(f).report]
    /\ fs' = nfs

\* the outermost create returns r; generators/base.py and configs.py are the
\* ones commands/generate.py calls, and it maps r to an exit code
Return(f, r, nfs) ==
    Finish([f EXCEPT !.pc = "done", !.result = r,
                     !.exit = IF gen.impl = "base"
                              THEN handle_file_generation(r) ELSE "none"], nfs)

\* create propagates the exception e
Raise(f, e, nfs) == Finish([f EXCEPT !.pc = "raised", !.exc = e], nfs)

(***************************************************************************)
(* The overwrite confirmation.                                             *)
(***************************************************************************)
MaxAttempts_Four == 3 + 1

MaxAttempts == 3

IsYes_OnlyY(resp) == resp = <<"y">>

IsYes(resp) == resp \in { <<"y">>, <<"y", "e", "s">> }

IsNo_NotEmpty(resp) == resp \in { <<"n">>, <<"n", "o">> }

IsNo(resp) == resp \in { <<"n">>, <<"n", "o">>, <<>> }

\* condition of FileGenerator._confirm_overwrite_if_file_exists
\* (generators/file.py, generators/base.py)
confirm_condition(p, force) ==
    exists(p) /\ is_file(p) /\ st_size(p) > 0 /\ ~force

\* FileGenerator._should_overwrite (core/generators/file.py) asks unless
\* this holds
should_overwrite_unasked(p, overwrite) ==
    ~exists(p) \/ st_size(p) = 0 \/ overwrite

Prompts_IgnoringForce(p, force) == exists(p) /\ is_file(p) /\ st_size(p) > 0

Prompts(p, force) ==
    IF gen.impl = "core"
    THEN ~should_overwrite_unasked(p, force)
    ELSE confirm_condition(p, force)

\* what FileGenerator.create returns (the base class in generators/base.py
\* has no return value)
FileGeneratorCreate(written) ==
    IF gen.impl = "base" THEN "None"
    ELSE IF written THEN "True" ELSE "False"

\* what the generator's create returns when the confirmation says abort
AbortResult ==
    IF gen.impl = "base" /\ gen.kind # "pgpass" THEN "None" ELSE "False"

(***************************************************************************)
(* Filesystem operations of the generators.                                *)
(***************************************************************************)
\* Path.mkdir(parents=True, exist_ok=True) on p: the exception it raises
mkdir_exc_swallowed(p) == "none"

mkdir_exc(p) ==
    IF fs[p].type \in {"file", "special"} THEN "FileExistsError"
    ELSE IF \E a \in Ancestors(p) : fs[a].type \in {"file", "special"}
         THEN "NotADirectoryError"
         ELSE "none"

\* ... and the filesystem it leaves
mkdir_parents(p) == WithDirs(fs, Ancestors(p) \cup {p})

\* Path.write_text(text) on p: the exception it raises
write_exc(p) ==
    IF is_dir(p)
    THEN IF system = "Windows" THEN "PermissionError" ELSE "IsADirectoryError"
    ELSE IF ~is_dir(Parent(p)) THEN "FileNotFoundError" ELSE "none"

write_text_append(p, text) ==
    [fs EXCEPT ![p] = File(fs[p].content \o text,
                           IF is_file(p) THEN fs[p].mode ELSE DefaultFileMode)]

\* ... and the filesystem it leaves: the file is truncated, then written
write_text(p, text) ==
    [fs EXCEPT ![p] = File(text, IF is_file(p) THEN fs[p].mode ELSE DefaultFileMode)]

\* Path.chmod(mode) on p
chmod(p, mode) == [fs EXCEPT ![p].mode = mode]

ChmodMode_AllKinds ==
    IF system # "Windows" THEN S_IRUSR \cup S_IWUSR ELSE NoMode

\* the permission bits create sets after the write; NoMode: none
ChmodMode ==
    CASE gen.impl = "core" -> specOf(gen.kind).chmod_mode
      [] gen.impl \in {"file", "base"} /\ gen.kind = "pgpass" ->
            IF system # "Windows" THEN S_IRUSR \cup S_IWUSR ELSE NoMode
      [] OTHER -> NoMode

(***************************************************************************)
(* create, step by step.                                                   *)
(***************************************************************************)
\* create(force) is called: the target path is computed and the
\* confirmation condition evaluated
GenCreate(force) ==
    /\ cr.pc \in {"idle", "done", "raised"}
    /\ cp.pc = "idle"
    /\ ncalls < MaxCalls
    /\ ncalls' = ncalls + 1
    /\ prev' = Summary(cr)
    /\ LET t == TargetOf(gen)
           f0 == [IdleFrame EXCEPT !.force = force,
                                   !.command = IF gen.impl = "base"
                                               THEN "generate" ELSE "none"]
       IN  IF t.exc # "none"
           THEN Raise(f0, t.exc, fs)
           ELSE /\ cr' = [f0 EXCEPT !.target = t.path, !.pre = fs[t.path],
                                    !.pc = IF Prompts(t.path, force)
                                           THEN "prompt" ELSE "mkdir"]
                /\ UNCHANGED fs
    /\ UNCHANGED <<pf, system, appdata, dirStSize, gen, cp>>

\* one round of the confirmation loop: the conflict is printed and the
\* typed line read and interpreted
GenPrompt(line) ==
    /\ cr.pc = "prompt"
    /\ LET resp == lower(strip(line))
           f1 == [cr EXCEPT !.reads = Append(@, line), !.nreads = @ + 1,
                            !.out = Append(@, "exists and is not empty")]
       IN  IF IsYes(resp)
           THEN /\ cr' = [f1 EXCEPT !.pc = "mkdir"]
                /\ UNCHANGED fs
           ELSE IF IsNo(resp)
           THEN Return([f1 EXCEPT !.out = Append(@, "Aborted.")], AbortResult, fs)
           ELSE LET f2 == [f1 EXCEPT !.out = Append(@, "Please answer with 'y' or 'n'."),
                                     !.attempts = @ + 1]
                IN  IF f2.attempts < MaxAttempts
                    THEN /\ cr' = f2
                         /\ UNCHANGED fs
                    ELSE Return([f2 EXCEPT !.out = Append(@, "Too many invalid responses. Aborted.")],
                                AbortResult, fs)
    /\ UNCHANGED <<pf, system, appdata, dirStSize, gen, prev, ncalls, cp>>

\* file_path.parent.mkdir(parents=True, exist_ok=True)
GenMkdir ==
    /\ cr.pc = "mkdir"
    /\ LET p == Parent(cr.target)
       IN  IF mkdir_exc(p) # "none"
           THEN Raise(cr, mkdir_exc(p), fs)
           ELSE /\ cr' = [cr EXCEPT !.pc = "write"]
                /\ fs' = mkdir_parents(p)
    /\ UNCHANGED <<pf, system, appdata, dirStSize, gen, prev, ncalls, cp>>

\* file_path.write_text(data), the success report, and what follows the
\* write in the generator's create
GenWrite ==
    /\ cr.pc = "write"
    /\ LET t == cr.target
           nfs == write_text(t, ContentOf(gen))
           f1 == [cr EXCEPT !.wrote = TRUE, !.out = Append(@, "File written")]
           super == FileGeneratorCreate(TRUE)
       IN  IF write_exc(t) # "none"
           THEN Raise(cr, write_exc(t), fs)
           ELSE IF gen.impl # "core" /\ gen.kind = "pgpass" /\ ~Truthy(super)
           THEN Return(f1, "False", nfs)
           ELSE IF ChmodMode # NoMode
           THEN /\ cr' = [f1 EXCEPT !.pc = "chmod"]
                /\ fs' = nfs
           ELSE Return(f1, super, nfs)
    /\ UNCHANGED <<pf, system, appdata, dirStSize, gen, prev, ncalls, cp>>

\* the chmod after the write; it may fail, which is reported and ignored
GenChmod ==
    /\ cr.pc = "chmod"
    /\ \E ok \in BOOLEAN :
        LET f1 == [cr EXCEPT !.chmods = @ + 1] IN
        IF ok
        THEN Return([f1 EXCEPT !.out = Append(@, "Permissions set")], "True",
                    chmod(cr.target, ChmodMode))
        ELSE Return([f1 EXCEPT !.out = Append(@, "Warning: could not set permissions")],
                    "True", fs)
    /\ UNCHANGED <<pf, system, appdata, dirStSize, gen, prev, ncalls, cp>>

InitGen ==
    /\ system \in SystemNames
    /\ appdata \in (IF system = "Windows" THEN BOOLEAN ELSE {FALSE})
    /\ gen \in [impl : Impls, kind : Kinds]
    /\ \E ts \in TargetStates :
          /\ fs = IF TargetOf(gen).exc = "none"
                  THEN InitFs(TargetOf(gen).path, ts) ELSE EmptyFs
          \* the size of a directory is read of the target only
          /\ dirStSize \in (IF ts = "dir" THEN DirSizes ELSE {4096})
    /\ cr = IdleFrame
    /\ prev = IdleFrame
    /\ ncalls = 0
    /\ cp = IdleCopy
    /\ pf = NoPure

NextGen ==
    \/ \E force \in BOOLEAN : GenCreate(force)
    \/ \E line \in InputLines : GenPrompt(line)
    \/ GenMkdir
    \/ GenWrite
    \/ GenChmod

Spec == InitGen /\ [][NextGen]_vars

(***************************************************************************)
(* The command line (cli.py): interrupts, and a command that is not        *)
(* generate.                                                               *)
(***************************************************************************)
\* Ctrl+C while create waits for a line: input() raises KeyboardInterrupt
GenInterrupt ==
    /\ cr.pc = "prompt"
    /\ Raise(cr, "KeyboardInterrupt", fs)
    /\ UNCHANGED <<pf, system, appdata, dirStSize, gen, prev, ncalls, cp>>

\* main with --platform: handle_platform_info builds Platform(), which
\* raises on an unsupported system, prints and returns ExitCode.SUCCESS
MainPlatform ==
    /\ cr.pc \in {"idle", "done", "raised"}
    /\ cp.pc = "idle"
    /\ ncalls < MaxCalls
    /\ ncalls' = ncalls + 1
    /\ prev' = Summary(cr)
    /\ LET f0 == [IdleFrame EXCEPT !.command = "platform"]
       IN  IF os_name = "OSError"
           THEN Raise(f0, "OSError", fs)
           ELSE Finish([f0 EXCEPT !.pc = "done", !.exit = "SUCCESS",
                                  !.out = <<"Platform: " \o os_name>>], fs)
    /\ UNCHANGED <<pf, system, appdata, dirStSize, gen, cp>>

NextMain ==
    \/ NextGen
    \/ GenInterrupt
    \/ MainPlatform

SpecMain == InitGen /\ [][NextMain]_vars

(***************************************************************************)
(* The two FileGenerator.create side by side: the class-based one          *)
(* (generators/file.py) is called, then the FileSpec-based one             *)
(* (core/generators/file.py) from the same filesystem.                     *)
(***************************************************************************)
\* the first call is over: the filesystem is put back as it was and the
\* generator is the FileSpec-based one of the same kind
SwitchImpl ==
    /\ pf.kind = "pair" /\ ~pf.switched
    /\ gen.impl = "file"
    /\ ncalls = 1
    /\ cr.pc \in {"done", "raised"}
    /\ cp.pc = "idle"
    /\ gen' = [gen EXCEPT !.impl = "core"]
    /\ fs' = pf.fs0
    /\ pf' = [pf EXCEPT !.switched = TRUE, !.reads = cr.reads]
    /\ UNCHANGED <<system, appdata, dirStSize, cr, prev, ncalls, cp>>

InitPair ==
    /\ system \in {"Windows", "Linux", "Darwin"}
    /\ appdata = (system = "Windows")
    /\ gen \in [impl : {"file"}, kind : Kinds]
    /\ \E ts \in TargetStates :
          /\ fs = InitFs(TargetOf(gen).path, ts)
          /\ dirStSize \in (IF ts = "dir" THEN DirSizes ELSE {4096})
    /\ cr = IdleFrame
    /\ prev = IdleFrame
    /\ ncalls = 0
    /\ cp = IdleCopy
    /\ pf = [kind |-> "pair", fs0 |-> fs, reads |-> <<>>, switched |-> FALSE]

NextPair ==
    \/ NextGen
    \/ SwitchImpl

SpecPair == InitPair /\ [][NextPair]_vars

(***************************************************************************)
(* The copy subsystem (core/io/fscopy.py).                                 *)
(***************************************************************************)
\* Path.resolve() of a path relative to the working directory
RECURSIVE Normalize(_, _)
Normalize(done, rest) ==
    IF rest = <<>> THEN done
    ELSE IF Head(rest) = "." THEN Normalize(done, Tail(rest))
    ELSE IF Head(rest) = ".."
         THEN Normalize(IF Len(done) > 1 THEN Parent(done) ELSE done, Tail(rest))
         ELSE Normalize(Append(done, Head(rest)), Tail(rest))

\* TypeConverter.to_path
to_path(value) == Normalize(Cwd, value)

SourceArgs == { <<"src">>, <<".", "src">> }
DestArgs == { <<"dst">>, <<"out", "dst">>, <<"src">>, <<".">>, <<"dst", "..", "dst">> }

IsPrefix(p, q) == Len(p) <= Len(q) /\ SubSeq(q, 1, Len(p)) = p

\* what an I/O call may fail with for reasons outside the model
Faults == {"none", "PermissionError", "OSError"}

\* shutil.copy2(s, d): where the bytes go, the exception, the result
copy2_target(sp, d) == IF is_dir(d) THEN d \o <<sp[Len(sp)]>> ELSE d

copy2_exc(sp, d) ==
    IF copy2_target(sp, d) = sp THEN "SameFileError"
    ELSE IF ~is_dir(Parent(copy2_target(sp, d))) THEN "FileNotFoundError"
    ELSE "none"

copy2_keep_existing(sp, d) ==
    IF is_file(copy2_target(sp, d)) THEN fs
    ELSE [fs EXCEPT ![copy2_target(sp, d)] = File(fs[sp].content, fs[sp].mode)]

copy2(sp, d) ==
    [fs EXCEPT ![copy2_target(sp, d)] = File(fs[sp].content, fs[sp].mode)]

rmtree_exc_unlinks_file(p) ==
    IF ~exists(p) THEN "FileNotFoundError" ELSE "none"

\* shutil.rmtree(p)
rmtree_exc(p) ==
    IF ~exists(p) THEN "FileNotFoundError"
    ELSE IF ~is_dir(p) THEN "NotADirectoryError"
    ELSE "none"

rmtree_shallow(p) == [fs EXCEPT ![p] = Absent]

rmtree(p) == [q \in DOMAIN fs |-> IF IsPrefix(p, q) THEN Absent ELSE fs[q]]

\* shutil.copytree(sp, d, dirs_exist_ok=False)
copytree_exc(sp, d) ==
    IF ~exists(sp) THEN "FileNotFoundError"
    ELSE IF ~is_dir(sp) THEN "NotADirectoryError"
    ELSE IF exists(d) THEN "FileExistsError"
    ELSE IF \E a \in Ancestors(d) : fs[a].type \in {"file", "special"}
         THEN "NotADirectoryError"
         ELSE "none"

copytree_atomic(sp, d, skipped) ==
    IF skipped # {} THEN fs
    ELSE LET base == WithDirs(fs, Ancestors(d) \cup {d}) IN
         [q \in DOMAIN fs |->
             IF \E e \in EntryNames : q = d \o <<e>> /\ exists(sp \o <<e>>)
             THEN fs[sp \o <<CHOOSE e \in EntryNames : q = d \o <<e>>>>]
             ELSE base[q]]

\* the tree after copytree, the entries of skipped having failed to copy
copytree(sp, d, skipped) ==
    LET base == WithDirs(fs, Ancestors(d) \cup {d}) IN
    [q \in DOMAIN fs |->
        IF \E e \in EntryNames \ skipped : q = d \o <<e>> /\ exists(sp \o <<e>>)
        THEN fs[sp \o <<CHOOSE e \in EntryNames : q = d \o <<e>>>>]
        ELSE base[q]]

\* the names of the entries of the directory p
Entries(p) == { e \in EntryNames : p \o <<e>> \in DOMAIN fs /\ exists(p \o <<e>>) }

\* the copy call f ends with the result r
CopyReturn(f, r, nfs) ==
    /\ cp' = [f EXCEPT !.pc = "done", !.result = r]
    /\ fs' = nfs

CopyFailed_generic(f, e, what, nfs) ==
    CopyReturn([f EXCEPT !.exc = e,
                         !.out = Append(@, "Failed to copy " \o what \o ": " \o e)],
               "False", nfs)

CopyFailed_silent(f, e, what, nfs) ==
    CopyReturn([f EXCEPT !.exc = e], "False", nfs)

\* the except clauses of the copiers: the exception e is caught and reported
CopyFailed(f, e, what, nfs) ==
    CopyReturn([f EXCEPT !.exc = e,
                         !.out = Append(@, IF e = "PermissionError"
                                           THEN "Permission denied."
                                           ELSE "Failed to copy " \o what \o ": " \o e)],
               "False", nfs)

select_copier_file_first(source_path) ==
    IF is_dir(source_path) THEN "dir" ELSE "file"

\* the copier copy_path chooses for the source; "none": no copier
select_copier(source_path) ==
    IF is_file(source_path) THEN "file"
    ELSE IF is_dir(source_path) THEN "dir"
    ELSE "none"

\* copy_path(source, destination): the paths are resolved and the copier
\* chosen by the type of the source
CopyPath(source, destination) ==
    /\ cp.pc \in {"idle", "done"}
    /\ cr.pc = "idle"
    /\ ncalls < MaxCalls
    /\ ncalls' = ncalls + 1
    /\ LET source_path == to_path(source)
           dest_path == to_path(destination)
           f0 == [IdleCopy EXCEPT !.via = "copy_path", !.source = source_path,
                                  !.destination = dest_path, !.pre = fs]
       IN  IF select_copier(source_path) # "none"
           THEN /\ cp' = [f0 EXCEPT !.pc = "validate",
                                    !.strategy = select_copier(source_path)]
                /\ fs' = fs
           ELSE IF ~exists(source_path)
           THEN CopyReturn([f0 EXCEPT !.out = Append(@, "Source path does not exist")],
                           "False", fs)
           ELSE CopyReturn([f0 EXCEPT !.out = Append(@, "Source is neither a file nor a directory")],
                           "False", fs)
    /\ UNCHANGED <<pf, system, appdata, dirStSize, gen, cr, prev>>

\* FileCopier().copy or DirectoryCopier().copy called by a user of the
\* library
CopierCopy(strategy, source, destination) ==
    /\ cp.pc \in {"idle", "done"}
    /\ cr.pc = "idle"
    /\ ncalls < MaxCalls
    /\ ncalls' = ncalls + 1
    /\ cp' = [IdleCopy EXCEPT !.via = "copier", !.pc = "validate",
                              !.strategy = strategy, !.source = source,
                              !.destination = destination, !.pre = fs]
    /\ UNCHANGED <<pf, system, appdata, dirStSize, fs, gen, cr, prev>>

\* the copiers' validation of the source, and for a directory the test
\* whether the destination exists
CopyValidate ==
    /\ cp.pc = "validate"
    /\ IF ~exists(cp.source)
       THEN CopyReturn([cp EXCEPT !.out = Append(@, "Source path does not exist")],
                       "False", fs)
       ELSE IF cp.strategy = "file"
       THEN IF ~is_file(cp.source)
            THEN CopyReturn([cp EXCEPT !.out = Append(@, "Source is not a file")],
                            "False", fs)
            ELSE cp' = [cp EXCEPT !.pc = "mkdir"] /\ fs' = fs
       ELSE IF ~is_dir(cp.source)
            THEN CopyReturn([cp EXCEPT !.out = Append(@, "Source is not a directory")],
                            "False", fs)
            ELSE /\ cp' = [cp EXCEPT !.pc = IF exists(cp.destination)
                                            THEN "confirm" ELSE "copytree"]
                 /\ fs' = fs
    /\ UNCHANGED <<pf, system, appdata, dirStSize, gen, cr, prev, ncalls>>

\* FileCopier: destination.parent.mkdir(parents=True, exist_ok=True)
FileMkdir ==
    /\ cp.pc = "mkdir"
    /\ \E fault \in Faults :
        LET p == Parent(cp.destination)
            e == IF mkdir_exc(p) # "none" THEN mkdir_exc(p) ELSE fault
            f1 == [cp EXCEPT !.ops = Append(@, "mkdir")]
        IN  IF e # "none"
            THEN CopyFailed(f1, e, "file", fs)
            ELSE cp' = [f1 EXCEPT !.pc = "copy2"] /\ fs' = mkdir_parents(p)
    /\ UNCHANGED <<pf, system, appdata, dirStSize, gen, cr, prev, ncalls>>

\* FileCopier: copy2(source, destination) and the success report
FileCopy2 ==
    /\ cp.pc = "copy2"
    /\ \E fault \in Faults :
        LET e == IF copy2_exc(cp.source, cp.destination) # "none"
                 THEN copy2_exc(cp.source, cp.destination) ELSE fault
            f1 == [cp EXCEPT !.ops = Append(@, "copy2")]
        IN  IF e # "none"
            THEN CopyFailed(f1, e, "file", fs)
            ELSE CopyReturn([f1 EXCEPT !.out = Append(@, "File copied successfully")],
                            "True", copy2(cp.source, cp.destination))
    /\ UNCHANGED <<pf, system, appdata, dirStSize, gen, cr, prev, ncalls>>

prompt_overwrite_yes(response) == response \in {<<"y">>, <<"y", "e", "s">>}

prompt_overwrite_always(response) == TRUE

prompt_overwrite_not_no(response) == response \notin {<<"n">>, <<"n", "o">>}

\* DirectoryCopier._prompt_overwrite: what it returns for the stripped,
\* lower-cased line
prompt_overwrite(response) == response = <<"y">>

\* DirectoryCopier._prompt_overwrite and the branch on its answer
DirConfirm(line) ==
    /\ cp.pc = "confirm"
    /\ LET response == lower(strip(line))
           f1 == [cp EXCEPT !.reads = Append(@, line),
                            !.ops = Append(@, "prompt"),
                            !.out = Append(@, "already exists.")]
       IN  IF prompt_overwrite(response)
           THEN cp' = [f1 EXCEPT !.pc = "rmtree"] /\ fs' = fs
           ELSE CopyReturn([f1 EXCEPT !.out = Append(@, "Copy aborted.")], "False", fs)
    /\ UNCHANGED <<pf, system, appdata, dirStSize, gen, cr, prev, ncalls>>

\* DirectoryCopier: rmtree(destination)
DirRmtree ==
    /\ cp.pc = "rmtree"
    /\ \E fault \in Faults :
        LET e == IF rmtree_exc(cp.destination) # "none"
                 THEN rmtree_exc(cp.destination) ELSE fault
            f1 == [cp EXCEPT !.ops = Append(@, "rmtree")]
        IN  IF e # "none"
            THEN CopyFailed(f1, e, "directory", fs)
            ELSE cp' = [f1 EXCEPT !.pc = "copytree"] /\ fs' = rmtree(cp.destination)
    /\ UNCHANGED <<pf, system, appdata, dirStSize, gen, cr, prev, ncalls>>

\* DirectoryCopier: copytree(source, destination) and the success report;
\* copytree goes on after an entry failed and raises at its end
DirCopytree ==
    /\ cp.pc = "copytree"
    /\ \E fault \in Faults, skipped \in SUBSET Entries(cp.source) :
        LET e == copytree_exc(cp.source, cp.destination)
            f1 == [cp EXCEPT !.ops = Append(@, "copytree")]
        IN  IF e # "none"
            THEN skipped = {} /\ fault = "none" /\ CopyFailed(f1, e, "directory", fs)
            ELSE IF fault # "none"
            THEN skipped = {} /\ CopyFailed(f1, fault, "directory", fs)
            ELSE IF skipped # {}
            THEN CopyFailed(f1, "Error", "directory",
                            copytree(cp.source, cp.destination, skipped))
            ELSE CopyReturn([f1 EXCEPT !.out = Append(@, "Directory copied successfully")],
                            "True", copytree(cp.source, cp.destination, {}))
    /\ UNCHANGED <<pf, system, appdata, dirStSize, gen, cr, prev, ncalls>>

\* the states of the source, of the destination and of the directory out
SrcStates ==
    { [t |-> x, es |-> {}] : x \in {"absent", "file", "special"} }
    \cup { [t |-> "dir", es |-> es] : es \in SUBSET EntryNames }
DstStates ==
    { [t |-> x, es |-> {}] : x \in {"absent", "file"} }
    \cup { [t |-> "dir", es |-> es] : es \in SUBSET EntryNames }
OutStates == {"absent", "file", "dir"}

SrcText(e) == "source " \o e \o "\n"
DstText(e) == "destination " \o e \o "\n"

CopyFs(ss, ds, os) ==
    [p \in AllPaths |->
        IF p = SrcPath
        THEN CASE ss.t = "absent" -> Absent
               [] ss.t = "file" -> File(SrcText("src"), S_IRUSR \cup S_IWUSR)
               [] ss.t = "special" -> Special
               [] OTHER -> Dir
        ELSE IF \E e \in EntryNames : p = SrcPath \o <<e>>
        THEN IF p[Len(p)] \in ss.es
             THEN File(SrcText(p[Len(p)]), DefaultFileMode) ELSE Absent
        ELSE IF p = DstPath
        THEN CASE ds.t = "absent" -> Absent
               [] ds.t = "file" -> File(DstText("dst"), DefaultFileMode)
               [] OTHER -> Dir
        ELSE IF \E e \in EntryNames : p = DstPath \o <<e>>
        THEN IF p[Len(p)] \in ds.es
             THEN File(DstText(p[Len(p)]), DefaultFileMode) ELSE Absent
        ELSE IF p = Cwd \o <<"out">>
        THEN CASE os = "absent" -> Absent
               [] os = "file" -> File(DstText("out"), DefaultFileMode)
               [] OTHER -> Dir
        ELSE EmptyFs[p]]

InitCopy ==
    /\ system = "Linux"
    /\ appdata = FALSE
    /\ dirStSize = 4096
    /\ gen = [impl |-> "core", kind |-> "ssh_config"]
    /\ \E ss \in SrcStates, ds \in DstStates, os \in OutStates : fs = CopyFs(ss, ds, os)
    /\ cr = IdleFrame
    /\ prev = IdleFrame
    /\ ncalls = 0
    /\ cp = IdleCopy
    /\ pf = NoPure

NextCopy ==
    \/ \E source \in SourceArgs, destination \in DestArgs : CopyPath(source, destination)
    \/ \E strategy \in {"file", "dir"}, destination \in DestArgs :
          CopierCopy(strategy, SrcPath, to_path(destination))
    \/ CopyValidate
    \/ FileMkdir
    \/ FileCopy2
    \/ \E line \in InputLines : DirConfirm(line)
    \/ DirRmtree
    \/ DirCopytree

SpecCopy == InitCopy /\ [][NextCopy]_vars

\* a step of the call in progress: the copiers are sequential code, and the
\* question is answered with a line
CopyStep ==
    \/ CopyValidate
    \/ FileMkdir
    \/ FileCopy2
    \/ \E line \in InputLines : DirConfirm(line)
    \/ DirRmtree
    \/ DirCopytree

\* the copy subsystem with every call in progress running on
SpecCopyLive == InitCopy /\ [][NextCopy]_vars /\ WF_vars(CopyStep)

(***************************************************************************)
(* URL paths (core/urls.py).  A url is a sequence of one-character         *)
(* strings.                                                                *)
(***************************************************************************)
UrlChars == {"/", "a"}
Urls == UNION { [1..k -> UrlChars] : k \in 0..MaxUrlLen }

\* "//" in url
contains_double_slash(u) ==
    \E i \in 1..(Len(u) - 1) : u[i] = "/" /\ u[i + 1] = "/"

\* url.replace("//", "/"): one pass from the left over the occurrences that
\* do not overlap
RECURSIVE replace_double_slash(_)
replace_double_slash(u) ==
    IF Len(u) < 2 THEN u
    ELSE IF u[1] = "/" /\ u[2] = "/"
         THEN <<"/">> \o replace_double_slash(SubSeq(u, 3, Len(u)))
         ELSE <<u[1]>> \o replace_double_slash(Tail(u))

\* while "//" in url: url = url.replace("//", "/")
RECURSIVE collapse_slashes(_)
collapse_slashes(u) ==
    IF contains_double_slash(u) THEN collapse_slashes(replace_double_slash(u)) ELSE u

startswith_slash(u) == u # <<>> /\ u[1] = "/"
endswith_slash(u) == u # <<>> /\ u[Len(u)] = "/"

\* url.lstrip("/") and url.rstrip("/")
RECURSIVE lstrip_slash(_)
lstrip_slash(u) == IF startswith_slash(u) THEN lstrip_slash(Tail(u)) ELSE u
RECURSIVE rstrip_slash(_)
rstrip_slash(u) ==
    IF endswith_slash(u) THEN rstrip_slash(SubSeq(u, 1, Len(u) - 1)) ELSE u

normalize_url_path(url, leading_slash, trailing_slash) ==
    IF url = <<>> THEN <<"/">>
    ELSE LET u1 == collapse_slashes(url)
             u2 == IF leading_slash /\ ~startswith_slash(u1) THEN <<"/">> \o u1
                   ELSE IF ~leading_slash /\ startswith_slash(u1) THEN lstrip_slash(u1)
                   ELSE u1
             u3 == IF trailing_slash /\ ~endswith_slash(u2) THEN u2 \o <<"/">>
                   ELSE IF ~trailing_slash /\ endswith_slash(u2) THEN rstrip_slash(u2)
                   ELSE u2
         IN  u3

\* normalize_url_path is called with the flags of pf, first on the url and
\* then on what the call before returned
NormalizeUrl ==
    /\ pf.kind = "url"
    /\ Len(pf.out) < MaxApply
    /\ pf' = [pf EXCEPT !.out = Append(@, normalize_url_path(
                                IF pf.out = <<>> THEN pf.url ELSE pf.out[Len(pf.out)],
                                pf.leading_slash, pf.trailing_slash))]
    /\ UNCHANGED <<system, appdata, dirStSize, fs, gen, cr, prev, ncalls, cp>>

\* the process outside the pure functions: nothing goes on
InitIdle ==
    /\ system = "Linux"
    /\ appdata = FALSE
    /\ dirStSize = 4096
    /\ gen = [impl |-> "core", kind |-> "ssh_config"]
    /\ fs = EmptyFs
    /\ cr = IdleFrame
    /\ prev = IdleFrame
    /\ ncalls = 0
    /\ cp = IdleCopy

InitUrl ==
    /\ InitIdle
    /\ \E url \in Urls, leading_slash \in BOOLEAN, trailing_slash \in BOOLEAN :
          pf = [kind |-> "url", url |-> url, leading_slash |-> leading_slash,
                trailing_slash |-> trailing_slash, out |-> <<>>]

NextUrl == NormalizeUrl

SpecUrl == InitUrl /\ [][NextUrl]_vars

(***************************************************************************)
(* Number functions (core/math.py and core/utils/math.py).                 *)
(***************************************************************************)
MathModules == {"core.math", "core.utils.math"}
MathFns == {"is_prime", "is_factorial", "fibonacci", "fibonacci_sequence",
            "is_perfect_square", "is_power_of_two"}

\* what a call gives: an exception, or a value (a bool, an int with -1 for
\* None, a list)
NoResult == [exc |-> "none", bool |-> FALSE, int |-> -1, list |-> <<>>]
Raised(e) == [NoResult EXCEPT !.exc = e]
RetBool(b) == [NoResult EXCEPT !.bool = b]
RetInt(i) == [NoResult EXCEPT !.int = i]
RetPair(b, i) == [NoResult EXCEPT !.bool = b, !.int = i]
RetList(l) == [NoResult EXCEPT !.list = l]

\* raise ValueError("n must be non-negative")
NonNegative == Raised("ValueError: n must be non-negative")

\* int(math.sqrt(n)) and math.isqrt(n), equal on the small n of the model
isqrt(n) == CHOOSE r \in 0..n : r * r <= n /\ (r + 1) * (r + 1) > n

\* a & b of non-negative ints
RECURSIVE BitAnd(_, _)
BitAnd(a, b) ==
    IF a = 0 \/ b = 0 THEN 0
    ELSE (a % 2) * (b % 2) + 2 * BitAnd(a \div 2, b \div 2)

is_prime(m, n) ==
    IF m = "core.utils.math" /\ n < 0 THEN NonNegative
    ELSE IF n < 2 THEN RetBool(FALSE)
    ELSE IF n = 2 THEN RetBool(TRUE)
    ELSE IF n % 2 = 0 THEN RetBool(FALSE)
    ELSE RetBool(~\E i \in 3..isqrt(n) : i % 2 = 1 /\ n % i = 0)

\* while factorial < n: factorial *= i; i += 1
RECURSIVE factorial_loop(_, _, _)
factorial_loop(factorial, i, n) ==
    IF factorial < n THEN factorial_loop(factorial * i, i + 1, n)
    ELSE [factorial |-> factorial, i |-> i]

is_factorial(m, n) ==
    IF m = "core.math"
    THEN IF n < 1 THEN RetBool(FALSE)
         ELSE IF n = 1 THEN RetBool(TRUE)
         ELSE RetBool(factorial_loop(1, 2, n).factorial = n)
    ELSE IF n < 0 THEN NonNegative
         ELSE IF n = 0 THEN RetPair(FALSE, -1)
         ELSE IF n = 1 THEN RetPair(TRUE, 0)
         ELSE LET l == factorial_loop(1, 2, n)
              IN  IF l.factorial = n THEN RetPair(TRUE, l.i - 1)
                  ELSE RetPair(FALSE, -1)

\* for _ in range(k, stop): a, b = b, a + b
RECURSIVE fibonacci_loop(_, _, _, _)
fibonacci_loop(a, b, k, stop) ==
    IF k < stop THEN fibonacci_loop(b, a + b, k + 1, stop) ELSE b

fibonacci(m, n) ==
    IF n < 0 THEN NonNegative
    ELSE IF n <= 1 THEN RetInt(n)
    ELSE RetInt(fibonacci_loop(0, 1, 2, n + 1))

\* the values yielded by the loop of fibonacci_sequence
RECURSIVE fibonacci_yield(_, _, _, _)
fibonacci_yield(a, b, k, stop) ==
    IF k < stop THEN <<a + b>> \o fibonacci_yield(b, a + b, k + 1, stop) ELSE <<>>

fibonacci_sequence_from_one(m, n) ==
    IF m = "core.utils.math" /\ n < 0 THEN NonNegative
    ELSE IF n <= 0 THEN RetList(<<>>)
    ELSE IF n = 1 THEN RetList(<<1>>)
    ELSE RetList(<<1, 1>> \o fibonacci_yield(1, 1, 2, n))

\* list(fibonacci_sequence(n)): the generator run to its end
fibonacci_sequence(m, n) ==
    IF m = "core.utils.math" /\ n < 0 THEN NonNegative
    ELSE IF n <= 0 THEN RetList(<<>>)
    ELSE IF n = 1 THEN RetList(<<0>>)
    ELSE RetList(<<0, 1>> \o fibonacci_yield(0, 1, 2, n))

is_perfect_square(m, n) ==
    IF n < 0
    THEN IF m = "core.math" THEN RetBool(FALSE) ELSE NonNegative
    ELSE RetBool(isqrt(n) * isqrt(n) = n)

is_power_of_two(m, n) ==
    IF m = "core.utils.math" /\ n < 0 THEN NonNegative
    ELSE RetBool(n > 0 /\ BitAnd(n, n - 1) = 0)

\* the function fn of the module m called with n
MathApply(m, fn, n) ==
    CASE fn = "is_prime" -> is_prime(m, n)
      [] fn = "is_factorial" -> is_factorial(m, n)
      [] fn = "fibonacci" -> fibonacci(m, n)
      [] fn = "fibonacci_sequence" -> fibonacci_sequence(m, n)
      [] fn = "is_perfect_square" -> is_perfect_square(m, n)
      [] fn = "is_power_of_two" -> is_power_of_two(m, n)

MathCall(fn) ==
    /\ pf.kind = "math"
    /\ pf' = [pf EXCEPT !.fn = fn, !.res = MathApply(pf.module, fn, pf.n)]
    /\ UNCHANGED <<system, appdata, dirStSize, fs, gen, cr, prev, ncalls, cp>>

InitMath ==
    /\ InitIdle
    /\ \E m \in MathModules, n \in (-MaxN)..MaxN :
          pf = [kind |-> "math", module |-> m, n |-> n, fn |-> "none",
                res |-> NoResult]

NextMath == \E fn \in MathFns : MathCall(fn)

SpecMath == InitMath /\ [][NextMath]_vars

(***************************************************************************)
(* String helpers (core/strings.py and core/utils/strings.py).             *)
(***************************************************************************)
StringModules == {"core.strings", "core.utils.strings"}

\* the values of the choices: strings of length 0..MaxValueLen, and the
\* (value, display) pairs
ChoiceValues == { [i \in 1..k |-> "v"] : k \in 0..MaxValueLen }
ChoicePairs == { <<v, "display">> : v \in ChoiceValues }
ChoiceLists == UNION { [1..k -> ChoicePairs] : k \in 0..MaxChoices }

\* max(len(choice[0]) for choice in choices), with default=0 in
\* core/utils/strings.py and without a default in core/strings.py
max_length_from_choices(m, choices) ==
    IF choices = <<>>
    THEN IF m = "core.utils.strings" THEN RetInt(0)
         ELSE Raised("ValueError: max() arg is an empty sequence")
    ELSE LET lens == { Len(choices[i][1]) : i \in 1..Len(choices) }
         IN  RetInt(CHOOSE l \in lens : \A k \in lens : k <= l)

StringCall ==
    /\ pf.kind = "choices"
    /\ ~pf.called
    /\ pf' = [pf EXCEPT !.called = TRUE,
                        !.res = max_length_from_choices(pf.module, pf.choices)]
    /\ UNCHANGED <<system, appdata, dirStSize, fs, gen, cr, prev, ncalls, cp>>

InitString ==
    /\ InitIdle
    /\ \E m \in StringModules, choices \in ChoiceLists :
          pf = [kind |-> "choices", module |-> m, choices |-> choices,
                called |-> FALSE, res |-> NoResult]

NextString == StringCall

SpecString == InitString /\ [][NextString]_vars

(***************************************************************************)
(* A process that uses either subsystem.                                   *)
(***************************************************************************)
InitAll == InitGen \/ InitCopy

NextAll == NextGen \/ NextCopy

SpecAll == InitAll /\ [][NextAll]_vars

(***************************************************************************)
(* Properties of create.                                                   *)
(***************************************************************************)
\* a typed line as the prompts compare it
Answer(line) == lower(strip(line))
YesAnswers == { <<"y">>, <<"y", "e", "s">> }
NoAnswers == { <<"n">>, <<"n", "o">>, <<>> }
InvalidAnswer(line) == Answer(line) \notin YesAnswers \cup NoAnswers

Started == cr.pc # "idle" /\ cr.target # <<>>
NonEmptyFile(n) == n.type = "file" /\ n.content # ""

\* C1: when the target is a non-empty regular file, force is false and one
\* of the lines read is n, no or empty (trimmed, lower-cased), create has
\* returned failure and the file is what it was before the call.
C1_DeclineKeepsFile ==
    ( /\ Started /\ NonEmptyFile(cr.pre) /\ ~cr.force
      /\ \E i \in 1..Len(cr.reads) : Answer(cr.reads[i]) \in NoAnswers )
    => /\ cr.pc = "done"
       /\ ~Truthy(cr.result)
       /\ gen.impl \in {"file", "core"} => cr.result = "False"
       /\ ~cr.wrote
       /\ fs[cr.target] = cr.pre

C1_Witness ==
    /\ gen.impl = "core" /\ cr.pc = "done" /\ NonEmptyFile(cr.pre) /\ ~cr.force
    /\ Len(cr.reads) = 3 /\ Answer(cr.reads[3]) = <<>> /\ cr.reads[3] # <<>>
    /\ cr.result = "False" /\ fs[cr.target] = cr.pre

\* C2: create prompts if and only if the target exists, is a regular file,
\* has non-zero size and force is false; otherwise it reads no input and
\* goes straight to writing.
C2_PromptsIffNonEmptyFile ==
    Started =>
        /\ (cr.pc = "prompt" \/ cr.nreads > 0) <=> (NonEmptyFile(cr.pre) /\ ~cr.force)
        /\ ~(NonEmptyFile(cr.pre) /\ ~cr.force)
              => cr.reads = <<>> /\ cr.pc \in {"mkdir", "write", "chmod", "done", "raised"}

\* C3: a create call reads at most 3 lines and then leaves the loop; after
\* 3 invalid answers it has returned failure and the file is unmodified.
C3_AtMostThreeAttempts ==
    /\ Len(cr.reads) <= 3
    /\ Len(cr.reads) = 3 => cr.pc # "prompt"
    /\ ( /\ Len(cr.reads) = 3
         /\ \A i \in 1..3 : InvalidAnswer(cr.reads[i]) )
       => /\ cr.pc = "done"
          /\ ~Truthy(cr.result)
          /\ gen.impl \in {"file", "core"} => cr.result = "False"
          /\ ~cr.wrote
          /\ fs[cr.target] = cr.pre

C3_Witness ==
    /\ gen.impl = "file" /\ cr.pc = "done" /\ Len(cr.reads) = 3
    /\ \A i \in 1..3 : InvalidAnswer(cr.reads[i])
    /\ cr.result = "False" /\ NonEmptyFile(cr.pre) /\ fs[cr.target] = cr.pre

\* C4: when the k-th line read (k = 1, 2, 3) is y or yes after k-1 invalid
\* ones, create reads nothing more, writes the file and returns success.
C4_YesProceeds ==
    (gen.impl \in {"file", "core"}) =>
        \A k \in 1..Len(cr.reads) :
            Answer(cr.reads[k]) \in YesAnswers =>
                /\ k = Len(cr.reads)
                /\ \A i \in 1..(k - 1) : InvalidAnswer(cr.reads[i])
                /\ cr.pc \in {"mkdir", "write", "chmod", "done"}
                /\ cr.pc = "done" => cr.result = "True" /\ cr.wrote

\* C5: after a create call that returned success the target holds exactly
\* the generator's content, whatever it held before.
C5_SuccessMeansContent ==
    (cr.pc = "done" /\ cr.result = "True")
    => /\ fs[cr.target].type = "file"
       /\ fs[cr.target].content = ContentOf(gen)
       /\ cr.post = fs[cr.target]

C5_Witness ==
    /\ cr.pc = "done" /\ cr.result = "True"
    /\ cr.pre.type = "file" /\ cr.pre.content = UserText
    /\ fs[cr.target].content = ContentOf(gen)

\* two create(force=true) calls in succession, the first one started with
\* the target absent, empty or non-empty
TwoForcedCalls ==
    /\ gen.impl \in {"file", "core"}
    /\ prev.pc \in {"done", "raised"} /\ prev.target # <<>> /\ prev.force
    /\ prev.pre.type \in {"absent", "file"}
    /\ cr.pc \in {"done", "raised"} /\ cr.force

C7_ChmodOnlyPgpassPosix ==
    (gen.impl \in {"file", "core"}) =>
        /\ (gen.kind = "pgpass" /\ system # "Windows" /\ cr.wrote)
              => /\ cr.pc \in {"chmod", "done"}
                 /\ cr.pc = "done"
                       => /\ cr.chmods = 1
                          /\ cr.result = "True"
                          /\ \/ fs[cr.target].mode = {"S_IRUSR", "S_IWUSR"}
                             \/ /\ cr.out[Len(cr.out)] = "Warning: could not set permissions"
                                /\ fs[cr.target].mode # {"S_IRUSR", "S_IWUSR"}
        /\ (gen.kind # "pgpass" \/ system = "Windows")
              => cr.chmods = 0 /\ cr.pc # "chmod"

C7_Witness ==
    /\ gen.impl = "core" /\ gen.kind = "pgpass" /\ system = "Darwin"
    /\ cr.pc = "done" /\ cr.wrote /\ cr.chmods = 1 /\ cr.result = "True"
    /\ cr.out[Len(cr.out)] = "Warning: could not set permissions"

\* C8: PgPassFileGenerator.create of generators/configs.py returns True if
\* the file was written and False only if the call was aborted, and off
\* Windows it sets mode 600 after every write.
C8_PgPassOverBaseReturnsWritten ==
    (gen.impl = "base" /\ gen.kind = "pgpass" /\ cr.pc = "done")
    => /\ cr.wrote => cr.result = "True"
       /\ cr.result = "False" => ~cr.wrote
       /\ (cr.wrote /\ system # "Windows") => cr.chmods = 1

\* C9: handle_file_generation returns ExitCode.SUCCESS exactly when the
\* generator wrote the file and ExitCode.ERROR exactly when create reported
\* failure, for each of the three kinds.
C9_ExitCodeMatchesWrite ==
    (gen.impl = "base" /\ cr.pc = "done")
    => /\ cr.exit = "SUCCESS" <=> cr.wrote
       /\ cr.exit = "ERROR" <=> ~cr.wrote

(***************************************************************************)
(* Properties of copy_path.                                                *)
(***************************************************************************)
\* C10: copy_path with a source that does not exist returns false with the
\* 'does not exist' diagnostic, invokes no copier, issues no prompt and
\* creates neither the destination nor any of its parent directories.
C10_MissingSourceNoEffect ==
    (cp.via = "copy_path" /\ cp.pre[cp.source].type = "absent")
    => /\ cp.pc = "done"
       /\ cp.result = "False"
       /\ cp.out = <<"Source path does not exist">>
       /\ cp.strategy = "none"
       /\ cp.ops = <<>>
       /\ cp.reads = <<>>
       /\ fs = cp.pre

C10_Witness ==
    /\ cp.via = "copy_path" /\ cp.pc = "done" /\ cp.result = "False"
    /\ cp.pre[cp.source].type = "absent"
    /\ cp.destination = DeepDstPath
    /\ ~exists(DeepDstPath) /\ ~exists(Parent(DeepDstPath))
    /\ cp.out = <<"Source path does not exist">>

\* the node at p in the filesystem f, absent when p is outside the model
NodeAt(f, p) == IF p \in DOMAIN f THEN f[p] ELSE Absent

\* the last line printed by the copy call
LastOut == IF cp.out = <<>> THEN "" ELSE cp.out[Len(cp.out)]

\* the directory copier found its source a directory and its destination
\* existing, and is past the question
AskedToOverwrite ==
    /\ cp.strategy = "dir"
    /\ cp.pre[cp.source].type = "dir"
    /\ cp.pre[cp.destination].type # "absent"
    /\ cp.pc \notin {"idle", "validate", "confirm"}

\* C11: DirectoryCopier.copy with an existing destination and any answer
\* other than y (trimmed, lower-cased; yes, n and the empty line included)
\* reports 'Copy aborted.', returns false and leaves the filesystem, the
\* destination tree included, exactly as it was.
C11_DeclineLeavesDestination ==
    AskedToOverwrite =>
        /\ Len(cp.reads) = 1
        /\ Answer(cp.reads[1]) # <<"y">>
              => /\ cp.pc = "done"
                 /\ cp.result = "False"
                 /\ LastOut = "Copy aborted."
                 /\ cp.ops = <<"prompt">>
                 /\ fs = cp.pre

C11_Witness ==
    /\ AskedToOverwrite /\ cp.pc = "done"
    /\ cp.destination = DstPath
    /\ Answer(cp.reads[1]) = <<"y", "e", "s">>
    /\ cp.pre[DstPath \o <<"b">>].type = "file"
    /\ fs[DstPath \o <<"b">>] = cp.pre[DstPath \o <<"b">>]
    /\ cp.result = "False"

\* the tree under the directory d now is the tree that was under the
\* directory sp when the call began
SameTree(sp, d) ==
    /\ is_dir(d)
    /\ \A q \in AllPaths :
          (IsPrefix(d, q) /\ q # d)
          => fs[q] = NodeAt(cp.pre, sp \o SubSeq(q, Len(d) + 1, Len(q)))

\* C12: DirectoryCopier.copy with an existing destination directory and the
\* answer y ends, when no I/O call raised, with true and with the destination
\* tree equal to the source tree: the source's entries are there and the
\* entries only the old destination had are gone.
C12_OverwriteReplacesTree ==
    ( /\ AskedToOverwrite /\ cp.pc = "done"
      /\ cp.pre[cp.destination].type = "dir"
      /\ Answer(cp.reads[1]) = <<"y">>
      /\ cp.exc = "none" )
    => /\ cp.result = "True"
       /\ cp.ops = <<"prompt", "rmtree", "copytree">>
       /\ SameTree(cp.source, cp.destination)

C12_Witness ==
    /\ AskedToOverwrite /\ cp.pc = "done" /\ cp.result = "True"
    /\ cp.destination = DstPath
    /\ cp.pre[DstPath \o <<"b">>].type = "file"
    /\ cp.pre[SrcPath \o <<"b">>].type = "absent"
    /\ cp.pre[SrcPath \o <<"a">>].type = "file"
    /\ fs[DstPath \o <<"a">>] = cp.pre[SrcPath \o <<"a">>]
    /\ ~exists(DstPath \o <<"b">>)

\* C13, as claimed: FileCopier.copy never asks; an existing regular file at
\* the destination is overwritten, and after a call that returned true the
\* content of the destination path is the content of the source.
C13_FileCopyContentAtDestination ==
    cp.strategy = "file" =>
        /\ cp.reads = <<>> /\ cp.pc # "confirm"
        /\ \A i \in 1..Len(cp.ops) : cp.ops[i] # "prompt"
        /\ (cp.pc = "done" /\ cp.result = "True")
              => /\ is_file(cp.destination)
                 /\ fs[cp.destination].content = cp.pre[cp.source].content

\* where copy2 puts the file: inside the destination when that is a directory
Landing == IF cp.pre[cp.destination].type = "dir"
           THEN cp.destination \o <<cp.source[Len(cp.source)]>>
           ELSE cp.destination

\* C13, amended: FileCopier.copy never asks; an existing regular file at the
\* destination is overwritten without a question, and after a call that
\* returned true the source's content is in the destination, or, when the
\* destination was a directory, in the file of the source's name inside it.
C13_FileCopyNeverAsks ==
    cp.strategy = "file" =>
        /\ cp.reads = <<>> /\ cp.pc # "confirm"
        /\ \A i \in 1..Len(cp.ops) : cp.ops[i] # "prompt"
        /\ (cp.pc = "done" /\ cp.result = "True")
              => /\ is_file(Landing)
                 /\ fs[Landing].content = cp.pre[cp.source].content
        /\ ( /\ cp.pc = "done" /\ cp.exc = "none"
             /\ cp.pre[cp.source].type = "file"
             /\ cp.pre[cp.destination].type = "file" )
              => /\ cp.result = "True"
                 /\ fs[cp.destination].content = cp.pre[cp.source].content

C13_Witness ==
    /\ cp.strategy = "file" /\ cp.pc = "done" /\ cp.result = "True"
    /\ cp.destination = DstPath
    /\ cp.pre[DstPath].type = "file"
    /\ cp.pre[DstPath].content = DstText("dst")
    /\ fs[DstPath].content = SrcText("src")
    /\ cp.reads = <<>>

CopyOps == {"mkdir", "copy2", "rmtree", "copytree"}

\* C14: neither copier propagates an exception raised while creating the
\* parent directories, copying, deleting the old destination or copying the
\* tree: the call returns false after the permission diagnostic for a
\* permission error, and after a diagnostic naming the kind for any other.
C14_CopiersCatchExceptions ==
    /\ cp.pc \in {"idle", "validate", "mkdir", "copy2", "confirm", "rmtree",
                  "copytree", "done"}
    /\ cp.exc # "none"
          => /\ cp.pc = "done"
             /\ cp.result = "False"
             /\ cp.ops # <<>> /\ cp.ops[Len(cp.ops)] \in CopyOps
             /\ LastOut = IF cp.exc = "PermissionError"
                          THEN "Permission denied."
                          ELSE "Failed to copy "
                               \o (IF cp.strategy = "file" THEN "file" ELSE "directory")
                               \o ": " \o cp.exc

C14_Witness ==
    /\ cp.pc = "done" /\ cp.result = "False"
    /\ cp.strategy = "dir"
    /\ cp.exc = "PermissionError"
    /\ cp.ops = <<"prompt", "rmtree">>
    /\ LastOut = "Permission denied."

(***************************************************************************)
(* Failures of create, target paths.                                       *)
(***************************************************************************)
\* the create call printed the line
Printed(line) == \E i \in 1..Len(cr.out) : cr.out[i] = line

\* C15: a failure to create the parent directories or to write the file
\* leaves create as an exception: no boolean is returned, no success is
\* reported, no chmod is attempted, and create goes on to the write only
\* under a directory and to the chmod only with the file written; a failing
\* chmod is caught and reported, and create still returns true.
C15_IOFailurePropagates ==
    (gen.impl \in {"file", "core"} /\ Started) =>
        /\ cr.pc = "raised"
              => /\ cr.result = "none"
                 /\ ~cr.wrote
                 /\ cr.chmods = 0
                 /\ ~Printed("File written")
                 /\ cr.exc \in {"FileExistsError", "NotADirectoryError",
                                "IsADirectoryError", "PermissionError",
                                "FileNotFoundError"}
        /\ cr.pc = "write" => is_dir(Parent(cr.target))
        /\ (cr.pc = "chmod" \/ cr.wrote) => is_file(cr.target)
        /\ cr.chmods > 0
              => /\ cr.pc = "done" /\ cr.result = "True" /\ cr.wrote
                 /\ Printed("File written")
                 /\ Printed("Permissions set")
                       \/ Printed("Warning: could not set permissions")

C15_Witness ==
    /\ gen.impl = "core" /\ Started
    /\ cr.pc = "raised" /\ cr.exc = "FileExistsError"
    /\ fs[Parent(cr.target)].type = "file"
    /\ cr.force /\ cr.result = "none" /\ cr.chmods = 0

\* the table of target paths: kind and OS family
TablePath(kind, sys) ==
    CASE kind = "pg_service" ->
            IF sys = "Windows"
            THEN <<"%APPDATA%", "postgresql", ".pg_service.conf">>
            ELSE <<"~", ".pg_service.conf">>
      [] kind = "pgpass" ->
            IF sys = "Windows"
            THEN <<"%APPDATA%", "postgresql", "pgpass.conf">>
            ELSE <<"~", ".pgpass">>
      [] kind = "ssh_config" -> <<"~", ".ssh", "config">>

\* the table has a row: a supported operating system, the application-data
\* variable set where the row names it
TableApplies ==
    \/ gen.kind = "ssh_config"
    \/ system \in {"Linux", "Darwin"}
    \/ system = "Windows" /\ appdata

\* C16: for each kind and supported OS family the target path of a create
\* call is the table's, and a second call under the same OS and environment
\* has the same target path as the first.
C16_TargetPathTable ==
    /\ (cr.pc # "idle" /\ TableApplies)
          => /\ cr.target = TablePath(gen.kind, system)
             /\ cr.exc \notin {"KeyError", "OSError"}
    /\ (ncalls >= 2 /\ cr.pc # "idle") => cr.target = prev.target

C16_Witness ==
    /\ system = "Windows" /\ appdata /\ gen.kind = "pgpass"
    /\ gen.impl = "core"
    /\ ncalls = 2 /\ cr.pc = "done"
    /\ cr.target = <<"%APPDATA%", "postgresql", "pgpass.conf">>
    /\ prev.target = cr.target

(***************************************************************************)
(* The course of a copy call.                                              *)
(***************************************************************************)
\* the state of the copy call with frame f
CopyStateOf(f) ==
    CASE f.pc = "idle" -> "Start"
      [] f.pc = "validate" -> "Validating"
      [] f.pc = "confirm" -> "Confirming"
      [] f.pc \in {"mkdir", "copy2", "rmtree", "copytree"} -> "Copying"
      [] f.pc = "done" /\ f.result = "True" -> "Succeeded"
      [] f.pc = "done" /\ f.result # "True" /\ f.exc # "none" -> "Failed"
      [] OTHER -> "Aborted"

\* the call did some of the copying
Copied == \E i \in 1..Len(cp.ops) : cp.ops[i] \in CopyOps

\* how a call ended, told by what it did
EndedSucceeded ==
    /\ cp.result = "True" /\ cp.exc = "none"
    /\ cp.ops # <<>> /\ cp.ops[Len(cp.ops)] \in {"copy2", "copytree"}
    /\ LastOut \in {"File copied successfully", "Directory copied successfully"}
EndedFailed ==
    /\ cp.result = "False" /\ cp.exc # "none"
    /\ cp.ops # <<>> /\ cp.ops[Len(cp.ops)] \in CopyOps
EndedAborted ==
    /\ cp.result = "False" /\ cp.exc = "none"
    /\ ~Copied

\* what holds of every state of a call
CopyCourse ==
    /\ CopyStateOf(cp) = "Confirming" => cp.strategy = "dir"
    /\ (Copied \/ CopyStateOf(cp) = "Copying")
          => /\ cp.pre[cp.source].type = cp.strategy
             /\ cp.reads # <<>> => Answer(cp.reads[1]) = <<"y">>
    /\ cp.pc = "done"
          => /\ EndedSucceeded \/ EndedFailed \/ EndedAborted
             /\ ~(EndedSucceeded /\ EndedFailed)
             /\ ~(EndedSucceeded /\ EndedAborted)
             /\ ~(EndedFailed /\ EndedAborted)
             /\ cp.result = "True" <=> EndedSucceeded

\* the steps a call takes from one state to the next
CopyTransition ==
    LET a == CopyStateOf(cp)
        b == CopyStateOf(cp')
    IN  cp' # cp =>
            IF ncalls' # ncalls
            THEN a \in {"Start", "Aborted", "Succeeded", "Failed"}
                 /\ b \in {"Validating", "Aborted"}
            ELSE \/ a = "Validating" /\ b \in {"Aborted", "Confirming", "Copying"}
                 \/ a = "Confirming" /\ b \in {"Aborted", "Copying"}
                 \/ a = "Copying" /\ b \in {"Copying", "Succeeded", "Failed"}

CreateDiagnostics == { "Aborted.", "Too many invalid responses. Aborted." }

\* the diagnostics of the copiers and of copy_path
CopyDiagnostics ==
    { "Source path does not exist", "Source is neither a file nor a directory",
      "Source is not a file", "Source is not a directory", "Copy aborted.",
      "Permission denied." }
    \cup { "Failed to copy " \o what \o ": " \o e :
              what \in {"file", "directory"},
              e \in {"OSError", "Error", "FileExistsError", "NotADirectoryError",
                     "FileNotFoundError", "SameFileError"} }

\* C18: no operation fails silently: when create, FileCopier.copy,
\* DirectoryCopier.copy or copy_path has returned failure, the last line it
\* printed before returning is a diagnostic.
C18_NoSilentFailure ==
    /\ (gen.impl \in {"file", "core"} /\ cr.pc = "done" /\ cr.result = "False")
          => /\ cr.out # <<>>
             /\ cr.out[Len(cr.out)] \in CreateDiagnostics
    /\ (cp.pc = "done" /\ cp.result = "False")
          => /\ cp.out # <<>>
             /\ LastOut \in CopyDiagnostics

C18_Witness ==
    /\ cp.pc = "done" /\ cp.result = "False"
    /\ cp.strategy = "file" /\ cp.exc = "OSError"
    /\ cp.ops = <<"mkdir", "copy2">>
    /\ LastOut = "Failed to copy file: OSError"

(***************************************************************************)
(* Properties of the pure functions.                                       *)
(***************************************************************************)
\* C19: normalize_url_path never returns the empty string; for the url '/'
\* with trailing_slash false, whatever leading_slash, it returns '/'.
C19_NeverEmpty ==
    (pf.kind = "url" /\ pf.out # <<>>)
    => /\ pf.out[1] # <<>>
       /\ (pf.url = <<"/">> /\ ~pf.trailing_slash) => pf.out[1] = <<"/">>

\* C20: is_prime, is_factorial, fibonacci, fibonacci_sequence,
\* is_perfect_square and is_power_of_two of christianwhocodes.core.math raise
\* the ValueError 'non-negative' for every negative argument and return
\* nothing.
C20_NegativeRaises ==
    (pf.kind = "math" /\ pf.module = "core.math" /\ pf.fn # "none" /\ pf.n < 0)
    => pf.res = NonNegative

\* C21: for every n >= 0 fibonacci_sequence(n) yields exactly n values, the
\* value at position i (from 0) being fibonacci(i); n = 0 yields nothing,
\* n = 1 yields [0] and n = 2 yields [0, 1].
C21_SequenceMatchesFibonacci ==
    (pf.kind = "math" /\ pf.fn = "fibonacci_sequence" /\ pf.n >= 0)
    => /\ pf.res.exc = "none"
       /\ Len(pf.res.list) = pf.n
       /\ \A i \in 0..(pf.n - 1) :
             /\ fibonacci(pf.module, i).exc = "none"
             /\ pf.res.list[i + 1] = fibonacci(pf.module, i).int
       /\ pf.n = 0 => pf.res.list = <<>>
       /\ pf.n = 1 => pf.res.list = <<0>>
       /\ pf.n = 2 => pf.res.list = <<0, 1>>

C21_Witness ==
    /\ pf.kind = "math" /\ pf.fn = "fibonacci_sequence"
    /\ pf.module = "core.math" /\ pf.n = 7
    /\ pf.res.list = <<0, 1, 1, 2, 3, 5, 8>>

\* C22: max_length_from_choices returns the length of the longest first
\* element of the pairs, and 0 for an empty input, without raising.
C22_MaxLengthOrZero ==
    (pf.kind = "choices" /\ pf.called)
    => /\ pf.res.exc = "none"
       /\ \A i \in 1..Len(pf.choices) : Len(pf.choices[i][1]) <= pf.res.int
       /\ pf.choices # <<>>
             => \E i \in 1..Len(pf.choices) : Len(pf.choices[i][1]) = pf.res.int
       /\ pf.choices = <<>> => pf.res.int = 0

(***************************************************************************)
(* Properties of main.                                                     *)
(***************************************************************************)
\* C23: main ends by exiting with an exit code: the code the handler
\* returned when it returned, and 1 (ExitCode.ERROR) when the handler raised
\* KeyboardInterrupt or any other exception, an I/O failure propagated from
\* create included; until the handler ends the process has not exited.
C23_MainExitCode ==
    cr.command # "none" =>
        /\ cr.pc = "done"
              => /\ cr.exit \in {"SUCCESS", "ERROR"}
                 /\ cr.status = IF cr.exit = "SUCCESS" THEN 0 ELSE 1
        /\ cr.pc = "raised"
              => /\ cr.exc # "none"
                 /\ cr.status = 1
                 /\ cr.report = IF cr.exc = "KeyboardInterrupt"
                                THEN "Operation cancelled by user."
                                ELSE "Error: " \o cr.exc
        /\ cr.pc \notin {"done", "raised"} => cr.status = -1

C23_Witness ==
    /\ cr.command = "generate" /\ cr.pc = "raised"
    /\ cr.exc = "FileExistsError"
    /\ fs[Parent(cr.target)].type = "file"
    /\ cr.status = 1

(***************************************************************************)
(* Further properties of the copiers.                                      *)
(***************************************************************************)
\* the copier was given a source that exists and is not of its type
WrongTypeSource ==
    /\ cp.strategy \in {"file", "dir"}
    /\ cp.pre[cp.source].type \notin {"absent", cp.strategy}
    /\ cp.pc \notin {"idle", "validate"}

\* C24: FileCopier.copy given an existing source that is not a regular file,
\* and DirectoryCopier.copy given an existing source that is not a
\* directory, print 'is not a file' / 'is not a directory', return false and
\* change nothing: no parent directory is created, no question asked,
\* nothing deleted.
C24_WrongTypeNoEffect ==
    WrongTypeSource =>
        /\ cp.pc = "done"
        /\ cp.result = "False"
        /\ cp.out = << IF cp.strategy = "file" THEN "Source is not a file"
                       ELSE "Source is not a directory" >>
        /\ cp.ops = <<>>
        /\ cp.reads = <<>>
        /\ fs = cp.pre

C24_Witness ==
    /\ WrongTypeSource /\ cp.pc = "done"
    /\ cp.strategy = "dir" /\ cp.pre[cp.source].type = "file"
    /\ cp.destination = DstPath
    /\ cp.pre[DstPath \o <<"a">>].type = "file"
    /\ fs[DstPath \o <<"a">>].type = "file"
    /\ cp.out = <<"Source is not a directory">>

\* the number of times the call did op
OpCount(op) == Cardinality({ i \in 1..Len(cp.ops) : cp.ops[i] = op })

\* C25: in DirectoryCopier.copy the question is asked at most once in a call
\* and only when the destination exists; the destination is deleted only
\* after the answer y, and before the tree is copied; when the destination
\* does not exist nothing is asked or deleted.
C25_PromptOnceDeleteAfterYes ==
    (cp.strategy = "dir" /\ cp.pc # "idle") =>
        /\ OpCount("prompt") <= 1 /\ Len(cp.reads) = OpCount("prompt")
        /\ OpCount("prompt") = 1
              => /\ cp.pre[cp.destination].type # "absent"
                 /\ cp.ops[1] = "prompt"
        /\ OpCount("rmtree") <= 1
        /\ OpCount("rmtree") = 1
              => /\ Len(cp.reads) = 1 /\ Answer(cp.reads[1]) = <<"y">>
                 /\ cp.ops[2] = "rmtree"
        /\ OpCount("rmtree") = 0
              => \A q \in AllPaths :
                    (IsPrefix(cp.destination, q) /\ cp.pre[q].type # "absent")
                    => fs[q] = cp.pre[q]
        /\ OpCount("copytree") = 1
              => /\ cp.ops[Len(cp.ops)] = "copytree"
                 /\ cp.pre[cp.destination].type # "absent" => OpCount("rmtree") = 1
        /\ cp.pre[cp.destination].type = "absent"
              => /\ cp.reads = <<>>
                 /\ OpCount("prompt") = 0 /\ OpCount("rmtree") = 0

C25_Witness ==
    /\ cp.strategy = "dir" /\ cp.pc = "copytree"
    /\ cp.ops = <<"prompt", "rmtree">>
    /\ cp.pre[cp.destination].type = "dir"
    /\ ~exists(cp.destination)
    /\ Len(cp.reads) = 1

\* C26: directory copy is not atomic: when the tree copy fails partway the
\* call returns false with the destination a directory holding some of the
\* source's entries and lacking others; and once the overwrite was confirmed
\* the old destination tree is gone before the copy starts, whatever the copy
\* then does (so false does not mean an unchanged destination).
C26_NotAtomic ==
    cp.strategy = "dir" =>
        /\ (cp.pc = "copytree" /\ OpCount("rmtree") = 1)
              => \A q \in AllPaths : IsPrefix(cp.destination, q) => ~exists(q)
        /\ (cp.pc = "done" /\ cp.exc = "Error")
              => /\ cp.result = "False"
                 /\ is_dir(cp.destination)
                 /\ \E e \in EntryNames :
                       /\ cp.pre[cp.source \o <<e>>].type # "absent"
                       /\ ~exists(cp.destination \o <<e>>)
                 /\ \A e \in EntryNames :
                       exists(cp.destination \o <<e>>)
                       => fs[cp.destination \o <<e>>] = cp.pre[cp.source \o <<e>>]

C26_Witness ==
    /\ cp.strategy = "dir" /\ cp.pc = "done" /\ cp.result = "False"
    /\ cp.exc = "Error"
    /\ cp.ops = <<"prompt", "rmtree", "copytree">>
    /\ cp.destination = DstPath
    /\ cp.pre[DstPath \o <<"b">>] = File(DstText("b"), DefaultFileMode)
    /\ ~exists(DstPath \o <<"b">>)
    /\ fs[DstPath \o <<"a">>] = cp.pre[SrcPath \o <<"a">>]
    /\ exists(DstPath \o <<"a">>)
    /\ fs # cp.pre

\* C27: no copy_path call modifies or removes its source: at every point of
\* the call the source file or tree is what it was when the call began, also
\* when the destination is the source itself or a directory above it.
C27_SourceUntouched ==
    (cp.via = "copy_path" /\ cp.pc # "idle")
    => \A q \in AllPaths : IsPrefix(cp.source, q) => fs[q] = cp.pre[q]

\* the directory copier found its source a directory and its destination a
\* regular file
OntoFile ==
    /\ cp.strategy = "dir"
    /\ cp.pre[cp.source].type = "dir"
    /\ cp.pre[cp.destination].type = "file"
    /\ cp.pc \notin {"idle", "validate"}

\* C28: DirectoryCopier.copy onto a destination that is a regular file still
\* asks; after the answer y the recursive delete fails, the tree copy is
\* never started, the call returns false and the destination file stays as
\* it was, content included.
C28_FileDestinationSurvives ==
    OntoFile =>
        /\ cp.pc = "confirm" \/ Len(cp.reads) = 1
        /\ cp.pc # "copytree" /\ OpCount("copytree") = 0
        /\ fs[cp.destination] = cp.pre[cp.destination]
        /\ (cp.pc = "done" /\ Answer(cp.reads[1]) = <<"y">>)
              => /\ cp.ops = <<"prompt", "rmtree">>
                 /\ cp.exc # "none"
                 /\ cp.result = "False"

C28_Witness ==
    /\ OntoFile /\ cp.pc = "done"
    /\ Answer(cp.reads[1]) = <<"y">>
    /\ cp.exc = "NotADirectoryError"
    /\ cp.destination = DstPath
    /\ fs[DstPath] = File(DstText("dst"), DefaultFileMode)
    /\ cp.result = "False"

(***************************************************************************)
(* The two implementations of create compared.                             *)
(***************************************************************************)
\* one of the sequences begins the other: the two calls were given the same
\* lines as far as they read
SameInput(a, b) ==
    \/ Len(a) <= Len(b) /\ SubSeq(b, 1, Len(a)) = a
    \/ Len(b) <= Len(a) /\ SubSeq(a, 1, Len(b)) = b

\* what a finished call left at its target: its own template, or something
\* else (with the content)
LeftBy(f, template) ==
    IF f.post.type = "file" /\ f.post.content = template
    THEN <<"file", "template">>
    ELSE <<f.post.type, f.post.content>>

\* the class-based call (prev) and the FileSpec-based call (cr) were made
\* from the same filesystem with the same force flag and the same input
Paired ==
    /\ pf.kind = "pair" /\ pf.switched
    /\ gen.impl = "core" /\ ncalls = 2
    /\ prev.pc \in {"done", "raised"} /\ cr.pc \in {"done", "raised"}
    /\ cr.force = prev.force
    /\ SameInput(pf.reads, cr.reads)

\* C29: the class-based and the FileSpec-based create are equivalent: from
\* the same state of the target, with the same force flag and the same
\* lines typed, both ask the same number of times, return the same result
\* or raise alike, and leave the same file.
C29_CreateEquivalent ==
    Paired =>
        /\ cr.target = prev.target
        /\ cr.nreads = prev.nreads /\ cr.reads = pf.reads
        /\ cr.pc = prev.pc
        /\ cr.result = prev.result
        /\ cr.exc = prev.exc
        /\ LeftBy(cr, specOf(gen.kind).content) = LeftBy(prev, data(gen.kind))

(***************************************************************************)
(* normalize_url_path applied to its own result.                           *)
(***************************************************************************)
\* two slashes side by side somewhere in u
TwoSlashes(u) == \E i \in 1..Len(u), j \in 1..Len(u) : j = i + 1 /\ u[i] = "/" /\ u[j] = "/"

\* C30: normalize_url_path is idempotent for fixed flags: normalising a
\* result again with the same flags gives the same result, and a result
\* holds no two consecutive slashes.
C30_Idempotent ==
    pf.kind = "url" =>
        /\ \A i \in 1..Len(pf.out) : ~TwoSlashes(pf.out[i])
        /\ Len(pf.out) >= 2 => pf.out[2] = pf.out[1]

====
